---- MODULE Spec2Model ----
(***************************************************************************)
(* Model of the wallet store (src/src/wallet/wallets.ts) and of the        *)
(* transfer harness (src/src/tests/test-transfer.ts).                      *)
(*                                                                         *)
(* One wallet directory ("./wallets", the default of every store call) is  *)
(* modelled.  A string of the program is a pair <<tag, n>>; the text of a  *)
(* file is a sequence of JSON tokens, so that JSON.stringify and           *)
(* JSON.parse are real conversions and a half-overwritten file is a text   *)
(* that does not parse.                                                    *)
(***************************************************************************)
EXTENDS Integers, Sequences, FiniteSets, TLC

VARIABLES
    dirExists,   \* fs.existsSync(walletsDir)
    files,       \* the directory: file name -> text (a token sequence)
    last,        \* the latest call on the store and what it returned
    justSaved,   \* at a loadWallet: the wallet that the call before it, a saveWallets
                 \* of one wallet, saved; Null otherwise
    tpc,         \* testTransfer: the await it is suspended at
    tlog,        \* testTransfer: the RPC requests issued so far, in order
    tfault,      \* testTransfer: index in tlog of the request that failed, 0 if none
    procs,       \* racing saveWallets calls: position, batch, index
    lastWrite    \* racing saveWallets calls: name -> text of the latest completed write

vars == <<dirExists, files, last, justSaved, tpc, tlog, tfault, procs, lastWrite>>

storeVars == <<dirExists, files, last, justSaved>>
transferVars == <<tpc, tlog, tfault>>
raceVars == <<procs, lastWrite>>

(***************************************************************************)
(* Bounds                                                                  *)
(***************************************************************************)
\* number of distinct mnemonic phrases the entropy source can yield
MaxPhrase == 2
\* longest batch handed to saveWallets / longest createWallets count
MaxBatch == 2

Range(seq) == {seq[i] : i \in 1..Len(seq)}

Count(seq, x) == Cardinality({i \in 1..Len(seq) : seq[i] = x})

(***************************************************************************)
(* Strings, wallets                                                        *)
(***************************************************************************)
Str(tag, n) == <<tag, n>>

Undefined == Str("undefined", 0)
EmptyStr == Str("empty", 0)
\* a non-empty string that is not a valid BIP-39 mnemonic
BadPhrase == Str("text", 0)
Mnemonic(n) == Str("mnemonic", n)

Phrases == 1..MaxPhrase

\* ethers' default derivation path, and another path of the same tree
DefaultPath == "m/44'/60'/0'/0/0"
ChildPath == "m/44'/60'/0'/0/1"
NoPath == "none"
Paths == {DefaultPath, ChildPath}

\* key derivation: injective in (phrase, path)
Derive(n, path) == 2 * n + (IF path = DefaultPath THEN 0 ELSE 1)

KeyWallet(key, mnemonic, path) ==
    [address |-> Str("addr", key), privateKey |-> Str("priv", key),
     publicKey |-> Str("pub", key), mnemonic |-> mnemonic, path |-> path]

\* an HD wallet that carries its mnemonic
HDWallet(n, path) == KeyWallet(Derive(n, path), Mnemonic(n), path)

\* an HD wallet built from a seed or an extended key: wallet.mnemonic is null
SeedWallet(key) == KeyWallet(key, Undefined, NoPath)

\* the null of loadWallet
Null == [address |-> Str("null", 0), privateKey |-> Str("null", 0),
         publicKey |-> Str("null", 0), mnemonic |-> Undefined, path |-> NoPath]

Keys == {Derive(n, p) : n \in Phrases, p \in Paths}

\* every ethers.HDNodeWallet value saveWallets can be handed
Wallets == {HDWallet(n, p) : n \in Phrases, p \in Paths} \cup {SeedWallet(k) : k \in Keys}

\* ethers.Wallet.createRandom(): a random phrase, the default path
CreateRandom(n) == HDWallet(n, DefaultPath)

\* createWallets(walletCount): walletCount random wallets
createWallets(walletCount) ==
    {[i \in 1..walletCount |-> CreateRandom(pick[i])] : pick \in [1..walletCount -> Phrases]}

\* ethers.HDNodeWallet.fromPhrase(phrase): default path, no password
PhraseIsValid(phrase) == phrase[1] = "mnemonic"
FromPhrase(phrase) == HDWallet(phrase[2], DefaultPath)

Addresses == {w.address : w \in Wallets}

(***************************************************************************)
(* File names                                                              *)
(***************************************************************************)
\* `${walletsDir}/${address}.json`
WalletFileName(address) == [stem |-> address, ext |-> "json"]

JunkStem == Str("junk", 0)
NotesName == [stem |-> Str("notes", 0), ext |-> "txt"]

\* walletFile.endsWith(".json")
EndsWithJson(name) == name.ext = "json"

\* what loadWallet can be asked for: any string
Stems == Addresses \cup {JunkStem}

(***************************************************************************)
(* JSON texts                                                              *)
(***************************************************************************)
Tok(t, k, v) == [t |-> t, k |-> k, v |-> v]
LBrace == Tok("{", "", Undefined)
RBrace == Tok("}", "", Undefined)
Comma == Tok(",", "", Undefined)
NullTok == Tok("null", "", Undefined)
Field(k, v) == Tok("field", k, v)

RECURSIVE Members(_)
\* the members of an object, comma separated; an undefined value is left out
Members(fs) ==
    IF fs = <<>> THEN <<>>
    ELSE IF Head(fs).v = Undefined THEN Members(Tail(fs))
    ELSE LET rest == Members(Tail(fs))
         IN  IF rest = <<>> THEN <<Head(fs)>> ELSE <<Head(fs), Comma>> \o rest

\* JSON.stringify(walletData, null, 2)
Stringify(fs) == <<LBrace>> \o Members(fs) \o <<RBrace>>

\* faulty variant: the record leaves the phrase out
WalletDataNoPhrase(wallet) ==
    <<Field("address", wallet.address), Field("privateKey", wallet.privateKey),
      Field("publicKey", wallet.publicKey), Field("phrase", Undefined)>>

\* the WalletData of a wallet
WalletDataOf(wallet) ==
    <<Field("address", wallet.address), Field("privateKey", wallet.privateKey),
      Field("publicKey", wallet.publicKey), Field("phrase", wallet.mnemonic)>>

WalletJson(wallet) == Stringify(WalletDataOf(wallet))

\* JSON.parse accepts the text as an object
IsObjectText(text) ==
    /\ Len(text) >= 2
    /\ text[1] = LBrace
    /\ text[Len(text)] = RBrace
    /\ \/ Len(text) = 2
       \/ /\ Len(text) % 2 = 1
          /\ \A i \in 2..(Len(text) - 1) :
                IF i % 2 = 0 THEN text[i].t = "field" ELSE text[i] = Comma

IsNullText(text) == text = <<NullTok>>

\* JSON.parse(text) does not throw
Parses(text) == IsObjectText(text) \/ IsNullText(text)

\* parsed.key of an object text: the last member of that key, or undefined
Get(text, key) ==
    LET at == {i \in 1..Len(text) : text[i].t = "field" /\ text[i].k = key}
    IN  IF at = {} THEN Undefined
        ELSE text[CHOOSE i \in at : \A j \in at : j <= i].v

\* faulty variant: the test is "phrase" in walletData, which an empty phrase passes
TruthyDefined(v) == v # Undefined

\* if (walletData.phrase)
Truthy(v) == v # Undefined /\ v # EmptyStr

(***************************************************************************)
(* The file system                                                         *)
(***************************************************************************)
Present(fs) == DOMAIN fs

\* open(path, O_WRONLY | O_CREAT | O_TRUNC)
OpenTrunc(fs, name) ==
    IF name \in DOMAIN fs THEN [fs EXCEPT ![name] = <<>>] ELSE fs @@ (name :> <<>>)

\* write(fd, data) at offset 0 of an open file: bytes past the data stay
WriteAtStart(fs, name, data) ==
    LET old == fs[name]
        tail == IF Len(old) > Len(data) THEN SubSeq(old, Len(data) + 1, Len(old)) ELSE <<>>
    IN  [fs EXCEPT ![name] = data \o tail]

\* fs.writeFileSync(path, data)
WriteFileSync(fs, name, data) == WriteAtStart(OpenTrunc(fs, name), name, data)


(***************************************************************************)
(* saveWallets                                                             *)
(***************************************************************************)
\* fs.mkdirSync(walletsDir): EEXIST when the directory is there
MkdirSync(dirEx) == [dirExists |-> TRUE, raised |-> dirEx]

\* faulty variant: the directory is created without the existence check
EnsureDirAlways(dirEx) == MkdirSync(dirEx)

\* if (!fs.existsSync(walletsDir)) fs.mkdirSync(walletsDir)
EnsureDir(dirEx) ==
    IF ~dirEx THEN MkdirSync(dirEx) ELSE [dirExists |-> dirEx, raised |-> FALSE]

\* the body of wallets.forEach: one wallet written to <address>.json
SaveOne(fs, wallet) == WriteFileSync(fs, WalletFileName(wallet.address), WalletJson(wallet))

RECURSIVE SaveEach(_, _)
SaveEach(fs, batch) ==
    IF batch = <<>> THEN fs ELSE SaveEach(SaveOne(fs, Head(batch)), Tail(batch))

saveWallets(dirEx, fs, batch) ==
    LET d == EnsureDir(dirEx)
    IN  IF d.raised
        THEN [dirExists |-> dirEx, files |-> fs, raised |-> TRUE]
        ELSE [dirExists |-> d.dirExists, files |-> SaveEach(fs, batch), raised |-> FALSE]

(***************************************************************************)
(* loadWallets, loadWallet                                                 *)
(***************************************************************************)
\* the try block shared by loadWallets and loadWallet, on one file:
\* read, parse, recover from the phrase when there is one
TryLoad(fs, name) ==
    LET text == fs[name]
        phrase == Get(text, "phrase")
    IN  IF ~Parses(text) THEN [threw |-> TRUE, wallet |-> Null]
        ELSE IF IsNullText(text) THEN [threw |-> TRUE, wallet |-> Null]
        ELSE IF ~Truthy(phrase) THEN [threw |-> FALSE, wallet |-> Null]
        ELSE IF ~PhraseIsValid(phrase) THEN [threw |-> TRUE, wallet |-> Null]
        ELSE [threw |-> FALSE, wallet |-> FromPhrase(phrase)]

NoLoad == [ret |-> <<>>, reads |-> {}, logged |-> {}, raised |-> FALSE]

\* faulty variant: one try around the whole loop, so the first failure ends the load
LoadOneAbort(fs, acc, name) ==
    IF acc.raised \/ ~EndsWithJson(name) THEN acc
    ELSE LET r == TryLoad(fs, name)
         IN  [ret |-> IF r.wallet # Null THEN Append(acc.ret, r.wallet) ELSE acc.ret,
              reads |-> acc.reads \cup {name},
              logged |-> IF r.threw THEN acc.logged \cup {name} ELSE acc.logged,
              raised |-> r.threw]

\* the body of walletFiles.forEach
LoadOne(fs, acc, name) ==
    IF ~EndsWithJson(name) THEN acc
    ELSE LET r == TryLoad(fs, name)
         IN  [ret |-> IF r.wallet # Null THEN Append(acc.ret, r.wallet) ELSE acc.ret,
              reads |-> acc.reads \cup {name},
              logged |-> IF r.threw THEN acc.logged \cup {name} ELSE acc.logged,
              raised |-> acc.raised]

RECURSIVE LoadEach(_, _, _)
LoadEach(fs, acc, order) ==
    IF order = <<>> THEN acc ELSE LoadEach(fs, LoadOne(fs, acc, Head(order)), Tail(order))

\* fs.readdirSync(walletsDir): ENOENT when the directory is missing
ReaddirRaises(dirEx) == ~dirEx

\* faulty variant: the directory is enumerated without the existence check
loadWalletsNoGuard(dirEx, fs, order) ==
    IF ReaddirRaises(dirEx) THEN [NoLoad EXCEPT !.raised = TRUE]
    ELSE LoadEach(fs, NoLoad, order)

\* order: the enumeration readdirSync yields
loadWallets(dirEx, fs, order) ==
    IF ~dirEx THEN NoLoad
    ELSE IF ReaddirRaises(dirEx) THEN [NoLoad EXCEPT !.raised = TRUE]
    ELSE LoadEach(fs, NoLoad, order)

\* fs.existsSync(walletFilePath)
FileExists(dirEx, fs, name) == dirEx /\ name \in DOMAIN fs

\* faulty variant: the lookup scans the directory and keeps the file of the address
loadWalletScan(dirEx, fs, walletAddress) ==
    LET name == WalletFileName(walletAddress)
        json == {n \in DOMAIN fs : EndsWithJson(n)}
    IN  IF ~FileExists(dirEx, fs, name)
        THEN [wallet |-> Null, reads |-> IF dirEx THEN json ELSE {}, logged |-> {},
              raised |-> FALSE]
        ELSE LET r == TryLoad(fs, name)
             IN  [wallet |-> r.wallet, reads |-> json,
                  logged |-> IF r.threw THEN {name} ELSE {}, raised |-> FALSE]

loadWallet(dirEx, fs, walletAddress) ==
    LET name == WalletFileName(walletAddress)
    IN  IF ~FileExists(dirEx, fs, name)
        THEN [wallet |-> Null, reads |-> {}, logged |-> {}, raised |-> FALSE]
        ELSE LET r == TryLoad(fs, name)
             IN  [wallet |-> r.wallet, reads |-> {name},
                  logged |-> IF r.threw THEN {name} ELSE {}, raised |-> FALSE]

RECURSIVE Perms(_)
\* every order in which a directory can be enumerated
Perms(S) ==
    IF S = {} THEN {<<>>}
    ELSE UNION {{<<x>> \o p : p \in Perms(S \ {x})} : x \in S}

(***************************************************************************)
(* Calls on the store                                                      *)
(***************************************************************************)
Call(op) ==
    [op |-> op, arg |-> Undefined, batch |-> <<>>, ret |-> <<>>, wallet |-> Null,
     raised |-> FALSE, reads |-> {}, logged |-> {}, existed |-> FALSE]

\* batches of at most MaxBatch wallets
Batches == UNION {[1..n -> Wallets] : n \in 0..MaxBatch}

Idle == tpc = "idle"

DoSave(batch) ==
    LET r == saveWallets(dirExists, files, batch)
    IN  /\ dirExists' = r.dirExists
        /\ files' = r.files
        /\ last' = [Call("saveWallets") EXCEPT !.batch = batch, !.raised = r.raised,
                                               !.existed = dirExists]
        /\ justSaved' = Null

\* saveWallets(wallets) with any HD wallets
SaveWallets ==
    /\ Idle
    /\ \E batch \in Batches : DoSave(batch)
    /\ UNCHANGED <<transferVars, raceVars>>

\* testCreateWallets: saveWallets(createWallets(n)); the count, 10 by default,
\* is any n up to MaxBatch
TestCreateWallets ==
    /\ Idle
    /\ \E n \in 0..MaxBatch : \E batch \in createWallets(n) : DoSave(batch)
    /\ UNCHANGED <<transferVars, raceVars>>

LoadWallets ==
    /\ Idle
    /\ \E order \in Perms(Present(files)) :
          LET r == loadWallets(dirExists, files, order)
          IN  last' = [Call("loadWallets") EXCEPT !.ret = r.ret, !.raised = r.raised,
                           !.reads = r.reads, !.logged = r.logged, !.existed = dirExists]
    /\ justSaved' = Null
    /\ UNCHANGED <<dirExists, files, transferVars, raceVars>>

DoLoadWallet(walletAddress) ==
    LET r == loadWallet(dirExists, files, walletAddress)
    IN  /\ last' = [Call("loadWallet") EXCEPT !.arg = walletAddress, !.wallet = r.wallet,
                        !.raised = r.raised, !.reads = r.reads, !.logged = r.logged,
                        !.existed = dirExists]
        /\ justSaved' = IF last.op = "saveWallets" /\ ~last.raised /\ Len(last.batch) = 1
                        THEN last.batch[1] ELSE Null
        /\ UNCHANGED <<dirExists, files>>

LoadWallet ==
    /\ Idle
    /\ \E a \in Stems : DoLoadWallet(a)
    /\ UNCHANGED <<transferVars, raceVars>>

(***************************************************************************)
(* Files that other tools leave in the directory                           *)
(***************************************************************************)
JunkName == WalletFileName(JunkStem)

RecordText(address, phrase) ==
    Stringify(<<Field("address", address), Field("privateKey", Str("priv", 0)),
                Field("publicKey", Str("pub", 0)), Field("phrase", phrase)>>)

\* texts of a .json file that is not one of the store's own
JunkTexts ==
    {<<LBrace>>, <<NullTok>>,
     RecordText(JunkStem, BadPhrase), RecordText(JunkStem, EmptyStr),
     RecordText(JunkStem, Undefined)}
    \cup {RecordText(JunkStem, Mnemonic(n)) : n \in Phrases}

ExternalWrite ==
    /\ Idle
    /\ dirExists
    /\ \/ \E text \in JunkTexts : files' = WriteFileSync(files, JunkName, text)
       \/ files' = WriteFileSync(files, NotesName, <<NullTok>>)
    /\ last' = Call("external")
    /\ justSaved' = Null
    /\ UNCHANGED <<dirExists, transferVars, raceVars>>

(***************************************************************************)
(* testTransfer                                                            *)
(***************************************************************************)
\* the requests of a transfer, in the order of the awaits
TransferSteps == <<"getTransactionCount", "getFeeData", "sendTransaction", "wait">>

\* faulty variant: a rejected request is issued once more
AfterReplyRetry(log, ok) ==
    IF ~ok
    THEN IF Count(log, log[Len(log)]) < 2
         THEN [tpc |-> "awaiting", tlog |-> Append(log, log[Len(log)]), tfault |-> 0]
         ELSE [tpc |-> "transport_error", tlog |-> log, tfault |-> Len(log)]
    ELSE IF Len(log) < Len(TransferSteps)
    THEN [tpc |-> "awaiting", tlog |-> Append(log, TransferSteps[Len(log) + 1]), tfault |-> 0]
    ELSE [tpc |-> "receipt", tlog |-> log, tfault |-> 0]

\* what the function does when the awaited request settles: a rejection
\* leaves the function at once, a result lets it issue the next request or,
\* after the last one, print the receipt
AfterReply(log, ok) ==
    IF ~ok THEN [tpc |-> "transport_error", tlog |-> log, tfault |-> Len(log)]
    ELSE IF Len(log) < Len(TransferSteps)
    THEN [tpc |-> "awaiting", tlog |-> Append(log, TransferSteps[Len(log) + 1]), tfault |-> 0]
    ELSE [tpc |-> "receipt", tlog |-> log, tfault |-> 0]

\* the synchronous head of testTransfer, up to its first await
TransferStart ==
    /\ Idle
    /\ \E providerUrl \in BOOLEAN, recipientAddress \in BOOLEAN, walletAddress \in Stems :
          LET wallet == loadWallet(dirExists, files, walletAddress).wallet
          IN  /\ last' = [Call("testTransfer") EXCEPT !.arg = walletAddress]
              /\ IF ~providerUrl THEN tpc' = "config_error" /\ tlog' = <<>>
                 ELSE IF wallet = Null THEN tpc' = "not_found" /\ tlog' = <<>>
                 ELSE IF ~recipientAddress THEN tpc' = "config_error" /\ tlog' = <<>>
                 ELSE tpc' = "awaiting" /\ tlog' = <<TransferSteps[1]>>
    /\ justSaved' = Null
    /\ tfault' = 0
    /\ UNCHANGED <<dirExists, files>>
    /\ UNCHANGED raceVars

\* the request the function awaits settles
TransferReply ==
    /\ tpc = "awaiting"
    /\ \E ok \in BOOLEAN :
          LET r == AfterReply(tlog, ok)
          IN  tpc' = r.tpc /\ tlog' = r.tlog /\ tfault' = r.tfault
    /\ UNCHANGED <<storeVars, raceVars>>

\* the promise of testTransfer has settled; the harness is over
TransferEnd ==
    /\ tpc \in {"config_error", "not_found", "transport_error", "receipt"}
    /\ tpc' = "idle"
    /\ tlog' = <<>>
    /\ tfault' = 0
    /\ UNCHANGED <<storeVars, raceVars>>

(***************************************************************************)
(* saveWallets calls of independent processes                              *)
(***************************************************************************)
Procs == {1, 2}

EmptyDir == [n \in {} |-> <<>>]

NoProc == [pc |-> "none", batch |-> <<>>, i |-> 1]

Target(p) == procs[p].batch[procs[p].i]

AfterDir(p) == IF procs[p].batch = <<>> THEN "done" ELSE "open"

\* if (!fs.existsSync(walletsDir))
PExists(p) ==
    /\ procs[p].pc = "exists"
    /\ procs' = [procs EXCEPT ![p].pc = IF dirExists THEN AfterDir(p) ELSE "mkdir"]
    /\ UNCHANGED <<dirExists, files, lastWrite, last, justSaved, transferVars>>

\* fs.mkdirSync(walletsDir)
PMkdir(p) ==
    /\ procs[p].pc = "mkdir"
    /\ LET r == MkdirSync(dirExists)
       IN  /\ dirExists' = r.dirExists
           /\ procs' = [procs EXCEPT ![p].pc = IF r.raised THEN "raised" ELSE AfterDir(p)]
    /\ UNCHANGED <<files, lastWrite, last, justSaved, transferVars>>

\* fs.writeFileSync, first half: the file is opened and truncated
POpen(p) ==
    /\ procs[p].pc = "open"
    /\ files' = OpenTrunc(files, WalletFileName(Target(p).address))
    /\ procs' = [procs EXCEPT ![p].pc = "write"]
    /\ UNCHANGED <<dirExists, lastWrite, last, justSaved, transferVars>>

\* fs.writeFileSync, second half: the text is written from offset 0
PWrite(p) ==
    /\ procs[p].pc = "write"
    /\ LET name == WalletFileName(Target(p).address)
           data == WalletJson(Target(p))
       IN  /\ files' = WriteAtStart(files, name, data)
           /\ lastWrite' = IF name \in DOMAIN lastWrite
                           THEN [lastWrite EXCEPT ![name] = data]
                           ELSE lastWrite @@ (name :> data)
    /\ procs' = [procs EXCEPT ![p].i = @ + 1,
                              ![p].pc = IF procs[p].i = Len(procs[p].batch)
                                        THEN "done" ELSE "open"]
    /\ UNCHANGED <<dirExists, last, justSaved, transferVars>>

(***************************************************************************)
(* Specifications                                                          *)
(***************************************************************************)
InitStore ==
    /\ dirExists \in BOOLEAN
    /\ files = EmptyDir
    /\ last = Call("none")
    /\ justSaved = Null
    /\ tpc = "idle"
    /\ tlog = <<>>
    /\ tfault = 0
    /\ lastWrite = EmptyDir

Init ==
    /\ InitStore
    /\ procs = [p \in Procs |-> NoProc]

\* the harnesses of the program, and the files of other tools
Next ==
    \/ TestCreateWallets
    \/ LoadWallets
    \/ LoadWallet
    \/ ExternalWrite
    \/ TransferStart
    \/ TransferReply
    \/ TransferEnd

Spec == Init /\ [][Next]_vars

\* the store alone, handed any HD wallets, on a directory nothing else writes to
NextStore ==
    \/ SaveWallets
    \/ TestCreateWallets
    \/ LoadWallets
    \/ LoadWallet

SpecStore == Init /\ [][NextStore]_vars

RaceBatches == Batches

InitRace ==
    /\ InitStore
    /\ procs \in [Procs -> {[pc |-> "exists", batch |-> b, i |-> 1] : b \in RaceBatches}]

RaceExists == \E p \in Procs : PExists(p)
RaceMkdir == \E p \in Procs : PMkdir(p)
RaceOpen == \E p \in Procs : POpen(p)
RaceWrite == \E p \in Procs : PWrite(p)

NextRace ==
    \/ RaceExists
    \/ RaceMkdir
    \/ RaceOpen
    \/ RaceWrite

SpecRace == InitRace /\ [][NextRace]_vars

(***************************************************************************)
(* Properties                                                              *)
(***************************************************************************)
JsonFiles == {name \in Present(files) : EndsWithJson(name)}

\* a record file from which a wallet can be recovered
ValidRecord(text) == IsObjectText(text) /\ PhraseIsValid(Get(text, "phrase"))

\* a record file that parses and has no phrase, or an empty one
Phraseless(text) == IsObjectText(text) /\ Get(text, "phrase") \in {Undefined, EmptyStr}

\* a record file that parses and has a non-empty phrase
PhraseBearing(text) == IsObjectText(text) /\ ~(Get(text, "phrase") \in {Undefined, EmptyStr})

\* a file that cannot be parsed into a recoverable or a phraseless record
Corrupt(text) == ~ValidRecord(text) /\ ~Phraseless(text)

WalletOfRecord(text) == FromPhrase(Get(text, "phrase"))

Generated == {CreateRandom(n) : n \in Phrases}

\* C1: a generated wallet saved alone and then looked up by its address comes
\* back non-null with the same address, public key and private key, and it is
\* the wallet derived from the stored phrase.
RoundTrip ==
    (/\ last.op = "loadWallet"
     /\ justSaved \in Generated
     /\ last.arg = justSaved.address)
    => /\ last.wallet # Null
       /\ last.wallet.address = justSaved.address
       /\ last.wallet.publicKey = justSaved.publicKey
       /\ last.wallet.privateKey = justSaved.privateKey
       /\ last.wallet = WalletOfRecord(files[WalletFileName(last.arg)])
       /\ ~last.raised

RoundTripWitness ==
    /\ last.op = "loadWallet"
    /\ justSaved \in Generated
    /\ last.arg = justSaved.address
    /\ last.wallet.privateKey = justSaved.privateKey

\* C2: loadWallets never raises and returns exactly the wallets of the valid
\* phrase-bearing record files, each once, whatever the enumeration order and
\* whatever other .json files fail to parse; every failing file is logged.
CorruptFileIsolation ==
    last.op = "loadWallets" =>
        /\ ~last.raised
        /\ Len(last.ret) = Cardinality({name \in JsonFiles : ValidRecord(files[name])})
        /\ \A n \in Phrases :
              Count(last.ret, FromPhrase(Mnemonic(n)))
                = Cardinality({name \in JsonFiles :
                                  /\ ValidRecord(files[name])
                                  /\ Get(files[name], "phrase") = Mnemonic(n)})
        /\ last.logged = {name \in JsonFiles : Corrupt(files[name])}

CorruptFileIsolationWitness ==
    /\ last.op = "loadWallets"
    /\ \E name \in JsonFiles : Corrupt(files[name])
    /\ Cardinality({name \in JsonFiles : ValidRecord(files[name])}) >= 2
    /\ Len(last.ret) >= 2

\* C3 as stated: loadWallets returns one wallet per record file that parses
\* and has a non-empty phrase.
OneWalletPerPhraseBearingFile ==
    last.op = "loadWallets" =>
        /\ ~last.raised
        /\ Len(last.ret) = Cardinality({name \in JsonFiles : PhraseBearing(files[name])})

\* C3 (amended): a record file that parses and has no phrase, or an empty
\* one, contributes no wallet, raises nothing, is not reported as a failure
\* and stops no other file; the result holds one wallet per record file whose
\* phrase is a valid mnemonic, and nothing else.
SkipOnMissingPhrase ==
    last.op = "loadWallets" =>
        /\ ~last.raised
        /\ \A name \in JsonFiles :
              Phraseless(files[name]) => name \in last.reads /\ name \notin last.logged
        /\ last.reads = JsonFiles
        /\ Len(last.ret) = Cardinality({name \in JsonFiles : ValidRecord(files[name])})
        /\ Range(last.ret) = {WalletOfRecord(files[name]) :
                                 name \in {n \in JsonFiles : ValidRecord(files[n])}}

SkipOnMissingPhraseWitness ==
    /\ last.op = "loadWallets"
    /\ \E name \in JsonFiles : Phraseless(files[name])
    /\ last.ret # <<>>

\* C4: once racing saveWallets calls have all completed, every file they
\* wrote holds exactly the text of the write that completed last, and a
\* lookup of the address recovers from that text alone.
LastWriteWins ==
    (\A p \in Procs : procs[p].pc = "done") =>
        \A name \in DOMAIN lastWrite :
            /\ name \in Present(files)
            /\ files[name] = lastWrite[name]
            /\ loadWallet(dirExists, files, name.stem).wallet = TryLoad(lastWrite, name).wallet

\* The sequential half of C4: after a saveWallets call has returned, the file
\* of every address of the batch holds exactly the record of the last wallet
\* of that address, and a lookup recovers from that record alone.
SequentialOverwrite ==
    (last.op = "saveWallets" /\ ~last.raised) =>
        \A a \in {w.address : w \in Range(last.batch)} :
            LET idx == {i \in 1..Len(last.batch) : last.batch[i].address = a}
                lastw == last.batch[CHOOSE i \in idx : \A j \in idx : j <= i]
            IN  /\ files[WalletFileName(a)] = WalletJson(lastw)
                /\ loadWallet(dirExists, files, a).wallet =
                      (IF lastw.mnemonic = Undefined THEN Null
                       ELSE FromPhrase(lastw.mnemonic))

\* C5: a saveWallets call on a directory that exists and is not empty does
\* not raise, and leaves every file that is not <address>.json of a wallet of
\* the batch present with the text it had.
SaveFrame ==
    [][(/\ last'.op = "saveWallets"
        /\ dirExists
        /\ Present(files) # {})
       => /\ ~last'.raised
          /\ dirExists'
          /\ \A name \in Present(files) :
                name \notin {WalletFileName(w.address) : w \in Range(last'.batch)}
                => name \in Present(files') /\ files'[name] = files[name]]_vars

SaveFrameWitness ==
    /\ last.op = "saveWallets"
    /\ last.existed
    /\ last.batch # <<>>
    /\ ~last.raised
    /\ \E name \in Present(files) :
          name \notin {WalletFileName(w.address) : w \in Range(last.batch)}

\* C6: loadWallet never raises; it returns null without reading anything when
\* <address>.json is missing, returns null and logs when that file does not
\* yield a record, and never reads a file of another name.
LookupAbsence ==
    last.op = "loadWallet" =>
        LET name == WalletFileName(last.arg)
        IN  /\ ~last.raised
            /\ last.reads \subseteq {name}
            /\ ~(dirExists /\ name \in Present(files))
                  => last.wallet = Null /\ last.reads = {} /\ last.logged = {}
            /\ (dirExists /\ name \in Present(files) /\ Corrupt(files[name]))
                  => last.wallet = Null /\ last.logged = {name}

LookupAbsenceWitness ==
    /\ last.op = "loadWallet"
    /\ last.arg \in Addresses
    /\ \E a \in Addresses : a # last.arg /\ Present(files) = {WalletFileName(a)}
    /\ last.wallet = Null

\* C7: loadWallets on a missing directory returns the empty sequence, raises
\* nothing, reads nothing and leaves the directory missing.
MissingDirectory ==
    (last.op = "loadWallets" /\ ~last.existed) =>
        /\ last.ret = <<>>
        /\ ~last.raised
        /\ last.reads = {}
        /\ ~dirExists

MissingDirectoryWitness ==
    /\ last.op = "loadWallets"
    /\ ~last.existed
    /\ last.ret = <<>>

\* every record file is <address>.json of the address its text holds
FilesNamedByAddress ==
    \A name \in Present(files) :
        /\ EndsWithJson(name)
        /\ IsObjectText(files[name])
        /\ Get(files[name], "address") = name.stem

\* C8: on a directory only the store writes to, every record file is named
\* after the address in its text, and a wallet that loadWallet(a) returns has
\* address a.
StoreInvariant ==
    /\ FilesNamedByAddress
    /\ (last.op = "loadWallet" /\ last.wallet # Null) => last.wallet.address = last.arg

IsPrefix(s, t) == Len(s) <= Len(t) /\ SubSeq(t, 1, Len(s)) = s

\* C9: the requests of a transfer are issued in the order pending count, fee
\* data, submission, confirmation; the receipt is reached only after all
\* four; a request that fails ends the transfer there, with no later request
\* and no repeated one.
TransferOrder ==
    /\ IsPrefix(tlog, TransferSteps)
    /\ tpc = "receipt" => tlog = TransferSteps /\ tfault = 0
    /\ tpc = "awaiting" => tlog # <<>> /\ tfault = 0
    /\ tpc = "transport_error" <=> tfault # 0
    /\ tfault # 0 => Len(tlog) = tfault
    /\ tpc \in {"idle", "config_error", "not_found"} => tlog = <<>>

TransferOrderWitness ==
    /\ tpc = "transport_error"
    /\ tfault = Len(TransferSteps)
    /\ tlog = TransferSteps

\* C10: of two saveWallets calls racing on a directory, none fails because
\* the directory is already there, and once both are over every wallet of
\* both batches has its file.
MkdirIdempotent ==
    /\ \A p \in Procs : procs[p].pc # "raised"
    /\ (\A p \in Procs : procs[p].pc = "done") =>
          \A p \in Procs : \A w \in Range(procs[p].batch) :
              WalletFileName(w.address) \in Present(files)

====
